---- MODULE Spec2Model ----
(***************************************************************************)
(* A model of digipin_cli.py: the DIGIPIN encoder get_digipin and decoder  *)
(* get_lat_lng_from_digi_pin, called one after the other by a caller (the  *)
(* menu loop of main, run_encoder and run_decoder).                        *)
(*                                                                         *)
(* Numbers.  The source computes in binary floating point.  Every box edge *)
(* the two loops produce is 2.5 or 63.5 degrees plus a multiple of         *)
(* 36/4^10 degrees, a dyadic rational with few bits, so the box arithmetic *)
(* of lines 52-53, 74-81, 120-131 and 139-140 is exact in doubles; the     *)
(* subtraction lat - min_lat of line 57 is exact as well and the quotient  *)
(* never rounds up to an integer it is below.  The model therefore uses    *)
(* exact fixed-point numbers.  A degree value is a pair <<m, f>> that      *)
(* stands for m + f/Frac microdegrees (1e-6 degree), 0 <= f < Frac, kept   *)
(* in two limbs so that no product leaves the 32-bit range of TLC.  With   *)
(* Frac = 2^13 the half of the smallest cell, 36e6/4^10/2 microdegrees     *)
(* (= 140625/8192), is a whole number of units.                            *)
(***************************************************************************)
EXTENDS Integers, Sequences, FiniteSets, TLC

\* range(1, 11), line 51, and range(10), line 111: the number of levels.
Levels == 10

\* Units per microdegree.
Frac == 2^13

\* ---------------------------------------------------------------- numbers

\* The pair for m microdegrees and f units, f of any sign or size.
Fx(m, f) == <<m + (f \div Frac), f % Frac>>

\* A value given in whole microdegrees: float() of a decimal with six digits.
Micro(m) == <<m, 0>>

FxAdd(x, y) == Fx(x[1] + y[1], x[2] + y[2])

FxSub(x, y) == Fx(x[1] - y[1], x[2] - y[2])

\* x * k for a small integer k.
FxMul(x, k) == Fx(x[1] * k, x[2] * k)

\* x / 4.
FxDiv4(x) == <<x[1] \div 4, ((x[1] % 4) * Frac + x[2]) \div 4>>

\* x / 2.
FxDiv2(x) == <<x[1] \div 2, ((x[1] % 2) * Frac + x[2]) \div 2>>

FxLess(x, y) == x[1] < y[1] \/ (x[1] = y[1] /\ x[2] < y[2])

FxLeq(x, y) == x[1] < y[1] \/ (x[1] = y[1] /\ x[2] <= y[2])

\* math.floor(x / d) for d > 0.  The quotient of an in-range coordinate is in
\* 0..4; a quotient below 0 is given as -1 and one above 4 as 5, which the
\* clamp of lines 61-62 maps to the same index as the exact value.
FxFloorDiv(x, d) ==
    IF FxLess(x, Micro(0)) THEN -1
    ELSE IF \E n \in 0..4 : FxLeq(FxMul(d, n), x) /\ FxLess(x, FxMul(d, n + 1))
         THEN CHOOSE n \in 0..4 : FxLeq(FxMul(d, n), x) /\ FxLess(x, FxMul(d, n + 1))
         ELSE 5

\* Format6 with four decimals in place of six: f"{x:.4f}".
Format4(x) == ((x[1] + 50) \div 100) * 100

\* f"{x:.6f}": the decimal with six fractional digits nearest to x, given as
\* its number of microdegrees; a tie goes to the even digit.
Format6(x) ==
    IF 2 * x[2] > Frac THEN x[1] + 1
    ELSE IF 2 * x[2] < Frac THEN x[1]
    ELSE IF x[1] % 2 = 0 THEN x[1] ELSE x[1] + 1

\* ---------------------------------------------------------- configuration

\* DIGIPIN_GRID, lines 11-16.
GridInit ==
    << <<"F", "C", "9", "8">>,
       <<"J", "3", "2", "7">>,
       <<"K", "4", "5", "6">>,
       <<"L", "M", "P", "T">> >>

\* BOUNDS, lines 18-23.
BoundsInit ==
    [minLat |-> Micro(2500000), maxLat |-> Micro(38500000),
     minLon |-> Micro(63500000), maxLon |-> Micro(99500000)]

\* A Python list index i of a list of n items is valid from -n to n-1.
PyIndexOk(i, n) == -n <= i /\ i <= n - 1

\* list[i] with a valid index: a negative index counts from the end.
PyIndex(list, i) == IF i >= 0 THEN list[i + 1] ELSE list[Len(list) + i + 1]

\* Clamp left out.
NoClamp(i) == i

\* max(0, min(i, 3)), lines 61-62.
Clamp(i) == IF i < 0 THEN 0 ELSE IF i > 3 THEN 3 ELSE i

\* StripSep that removes the first hyphen only: digi_pin.replace('-', '', 1).
RECURSIVE StripFirstSep(_)
StripFirstSep(s) ==
    IF s = <<>> THEN <<>>
    ELSE IF Head(s) = "-" THEN Tail(s)
    ELSE <<Head(s)>> \o StripFirstSep(Tail(s))

\* digi_pin.replace('-', ''), line 99.
RECURSIVE StripSep(_)
StripSep(s) ==
    IF s = <<>> THEN <<>>
    ELSE IF Head(s) = "-" THEN StripSep(Tail(s))
    ELSE <<Head(s)>> \o StripSep(Tail(s))

\* grid_char_to_coords, line 109: a dict comprehension over r, c in row-major
\* order; of two equal symbols the later (r, c) overwrites the earlier.
RECURSIVE LookupFrom(_, _, _)
LookupFrom(grid, ch, i) ==
    IF i < 0 THEN <<-1, -1>>
    ELSE IF grid[(i \div 4) + 1][(i % 4) + 1] = ch THEN <<i \div 4, i % 4>>
    ELSE LookupFrom(grid, ch, i - 1)

\* grid_char_to_coords built as {DIGIPIN_GRID[r][c]: (c, r) ...}.
coords_transposed(grid, ch) == <<LookupFrom(grid, ch, 15)[2], LookupFrom(grid, ch, 15)[1]>>

\* grid_char_to_coords.get(char), line 114; <<-1, -1>> stands for None.
grid_char_to_coords(grid, ch) == LookupFrom(grid, ch, 15)

\* ------------------------------------------------------------------ inputs

\* The sample cells are numbered 0..MaxSample.
MaxSample == 12

\* The smallest unit of the model, 1/Frac microdegree.
Unit == <<0, 1>>

\* The band (counted from the low edge of the axis) that sample cell j lies in
\* at level i.  Sample 0 is the lowest cell of the axis, sample 12 the highest;
\* the other samples change band from level to level.
SampleDigit(j, i) == (j * i + (j \div 4)) % 4

RECURSIVE CellLowFrom(_, _, _, _)
CellLowFrom(lo, width, j, i) ==
    IF i > Levels THEN lo
    ELSE CellLowFrom(FxAdd(lo, FxMul(FxDiv4(width), SampleDigit(j, i))),
                     FxDiv4(width), j, i + 1)

\* The low edge of sample cell j on an axis that starts at lo and spans span.
CellLow(lo, span, j) == CellLowFrom(lo, span, j, 1)

RECURSIVE Quarter(_, _)
Quarter(x, n) == IF n = 0 THEN x ELSE Quarter(FxDiv4(x), n - 1)

\* The side of a level-10 cell: 36 degrees / 4^10.
Side == Quarter(FxSub(BoundsInit.maxLat, BoundsInit.minLat), Levels)

HalfSide == FxDiv2(Side)

\* Places within a cell: its low edge, one unit above it, its centre, and one
\* unit below its high edge (the high edge itself is the next cell's low edge).
Offsets == {Micro(0), Unit, HalfSide, FxSub(Side, Unit)}

\* The reference coordinate of the prompts, lines 158-159.
RefLat == Micro(28622788)

RefLon == Micro(77213033)

AxisInputs(lo, hi) ==
    {FxAdd(CellLow(lo, FxSub(hi, lo), j), o) : j \in 0..MaxSample, o \in Offsets}
        \cup {hi, FxSub(lo, Unit), FxAdd(hi, Unit), Micro(-1000000)}

LatInputs == AxisInputs(BoundsInit.minLat, BoundsInit.maxLat) \cup {RefLat}

LonInputs == AxisInputs(BoundsInit.minLon, BoundsInit.maxLon) \cup {RefLon, Micro(77000000)}

\* The ten symbols that address the cell whose latitude is in sample cell a
\* and whose longitude is in sample cell b.
CodeOf(a, b) ==
    [i \in 1..Levels |-> GridInit[(3 - SampleDigit(a, i)) + 1][SampleDigit(b, i) + 1]]

\* A code written the way get_digipin writes it: s1s2s3-s4s5s6-s7s8s9s10.
Hyphenate(c) ==
    SubSeq(c, 1, 3) \o <<"-">> \o SubSeq(c, 4, 6) \o <<"-">> \o SubSeq(c, 7, Len(c))

\* c with the symbol at position p replaced by ch.
Replace(c, p, ch) == [i \in 1..Len(c) |-> IF i = p THEN ch ELSE c[i]]

\* The code of the prompt, line 174, without its hyphens.
RefCode == <<"3", "9", "J", "4", "9", "L", "L", "8", "T", "4">>

ValidCodes == {CodeOf(a, b) : a \in 0..MaxSample, b \in 0..MaxSample} \cup {RefCode}

\* Codes with one or two characters outside the alphabet.
BadCharCodes ==
    {Replace(c, p, ch) : c \in ValidCodes, p \in {1, 5, 10}, ch \in {"!", "f"}}
        \cup {Replace(Replace(c, 3, "1"), 8, "!") : c \in ValidCodes}

\* Codes of a wrong length, with and without characters outside the alphabet.
BadLengthCodes ==
    {SubSeq(c, 1, n) : c \in ValidCodes, n \in {0, 7, 9}}
        \cup {c \o <<c[1]>> : c \in ValidCodes}
        \cup {SubSeq(Replace(c, 2, "!"), 1, 9) : c \in ValidCodes}
        \cup {<<"1", "2", "3", "4", "5", "6", "7">>}

PinInputs ==
    LET bare == ValidCodes \cup BadCharCodes \cup BadLengthCodes
    IN bare \cup {Hyphenate(c) : c \in {b \in bare : Len(b) >= 7}}
            \cup {<<"-">> \o c \o <<"-", "-">> : c \in ValidCodes}

\* ------------------------------------------------------------------- state

VARIABLES
    BOUNDS,          \* the module global BOUNDS
    DIGIPIN_GRID,    \* the module global DIGIPIN_GRID
    pc,              \* "idle", the function that is running, or "returned"
    fn,              \* the function called last: its arguments are below
    lat, lon,        \* the arguments of get_digipin
    digi_pin,        \* the argument of get_lat_lng_from_digi_pin
    pin_cleaned,     \* local of get_lat_lng_from_digi_pin
    min_lat, max_lat, min_lon, max_lon,   \* locals of both functions: the box
    level,           \* loop variable of get_digipin, 1..10 (11: loop over)
    char_index,      \* loop variable of get_lat_lng_from_digi_pin, 0..9 (10: over)
    row, col,        \* locals of get_digipin: the indices used last
    digi_pin_chars,  \* local of get_digipin
    result,          \* what the call returned or raised
    origin           \* history: how the caller came by the arguments of this call

vars ==
    <<BOUNDS, DIGIPIN_GRID, pc, fn, lat, lon, digi_pin, pin_cleaned, min_lat, max_lat,
      min_lon, max_lon, level, char_index, row, col, digi_pin_chars, result, origin>>

globals == <<BOUNDS, DIGIPIN_GRID>>

\* GlobalsOnlyRead where the box is kept in BOUNDS itself.
GlobalsWritten ==
    /\ BOUNDS' = [minLat |-> min_lat', maxLat |-> max_lat',
                  minLon |-> min_lon', maxLon |-> max_lon']
    /\ UNCHANGED DIGIPIN_GRID

\* Neither function assigns to a module global or to an item of one: BOUNDS and
\* DIGIPIN_GRID are only read (lines 39-47, 64, 103-109).
GlobalsOnlyRead == UNCHANGED globals

NoResult == [kind |-> "none"]

NoOrigin == [kind |-> "none"]

\* The box: min_lat, max_lat, min_lon, max_lon become a, b, c, d.
SetBox(a, b, c, d) == min_lat' = a /\ max_lat' = b /\ min_lon' = c /\ max_lon' = d

\* The other locals as they are when a function starts.
FreshLocals ==
    /\ level' = 0 /\ char_index' = 0
    /\ row' = 0 /\ col' = 0
    /\ digi_pin_chars' = <<>>

Init ==
    /\ BOUNDS = BoundsInit
    /\ DIGIPIN_GRID = GridInit
    /\ pc = "idle" /\ fn = "none"
    /\ lat = Micro(0) /\ lon = Micro(0) /\ digi_pin = <<>>
    /\ pin_cleaned = <<>>
    /\ min_lat = Micro(0) /\ max_lat = Micro(0)
    /\ min_lon = Micro(0) /\ max_lon = Micro(0)
    /\ level = 0 /\ char_index = 0
    /\ row = 0 /\ col = 0
    /\ digi_pin_chars = <<>>
    /\ result = NoResult
    /\ origin = NoOrigin

\* ------------------------------------------------------------- get_digipin

\* InRange with < in place of <=.
InRangeStrict(lo, x, hi) == FxLess(lo, x) /\ FxLess(x, hi)

\* BOUNDS['minLat'] <= lat <= BOUNDS['maxLat'], line 39 (and line 41).
InRange(lo, x, hi) == FxLeq(lo, x) /\ FxLeq(x, hi)

\* The ValueError of line 40 or 42.
OutOfRange(name, x, lo, hi) ==
    [kind |-> "ValueError", message |-> "out of range",
     coordinate |-> name, value |-> x, from |-> lo, to |-> hi]

\* Lines 39-49: the range checks and the start of the loop.  how is the
\* caller's record of where the arguments come from.
get_digipin_enter(a, b, how) ==
    /\ fn' = "get_digipin" /\ lat' = a /\ lon' = b /\ digi_pin' = <<>>
    /\ origin' = how
    /\ pin_cleaned' = <<>>
    /\ row' = 0 /\ col' = 0 /\ char_index' = 0 /\ digi_pin_chars' = <<>>
    /\ IF ~InRange(BOUNDS.minLat, a, BOUNDS.maxLat)
       THEN /\ pc' = "returned"
            /\ result' = OutOfRange("Latitude", a, BOUNDS.minLat, BOUNDS.maxLat)
            /\ SetBox(Micro(0), Micro(0), Micro(0), Micro(0))
            /\ level' = 0
       ELSE IF ~InRange(BOUNDS.minLon, b, BOUNDS.maxLon)
       THEN /\ pc' = "returned"
            /\ result' = OutOfRange("Longitude", b, BOUNDS.minLon, BOUNDS.maxLon)
            /\ SetBox(Micro(0), Micro(0), Micro(0), Micro(0))
            /\ level' = 0
       ELSE /\ pc' = "get_digipin"
            /\ result' = NoResult
            /\ SetBox(BOUNDS.minLat, BOUNDS.maxLat, BOUNDS.minLon, BOUNDS.maxLon)
            /\ level' = 1
    /\ GlobalsOnlyRead

\* GridAt with row and column exchanged: DIGIPIN_GRID[col][row].
GridAtTransposed(grid, r, c) == PyIndex(PyIndex(grid, c), r)

\* DIGIPIN_GRID[row][col], line 64, with indices that are valid.
GridAt(grid, r, c) == PyIndex(PyIndex(grid, r), c)

\* Separator with the hyphens one symbol late.
SeparatorLate(lv) == IF lv = 4 \/ lv = 7 THEN <<"-">> ELSE <<>>

\* The hyphen of lines 67-68.
Separator(lv) == IF lv = 3 \/ lv = 6 THEN <<"-">> ELSE <<>>

\* Line 57, before the clamp.
row_of(x, lo, div) == 3 - FxFloorDiv(FxSub(x, lo), div)

\* Line 58, before the clamp.
col_of(x, lo, div) == FxFloorDiv(FxSub(x, lo), div)

\* Lines 74 and 75.
temp_max_lat(lo, div, r) == FxAdd(lo, FxMul(div, 4 - r))

temp_min_lat(lo, div, r) == FxAdd(lo, FxMul(div, 3 - r))

\* One pass of the loop of lines 51-81.
get_digipin_loop ==
    /\ pc = "get_digipin" /\ level <= Levels
    /\ LET lat_div == FxDiv4(FxSub(max_lat, min_lat))
           lon_div == FxDiv4(FxSub(max_lon, min_lon))
           r == Clamp(row_of(lat, min_lat, lat_div))
           c == Clamp(col_of(lon, min_lon, lon_div))
       IN /\ row' = r /\ col' = c
          /\ IF ~PyIndexOk(r, Len(DIGIPIN_GRID)) \/ ~PyIndexOk(c, Len(PyIndex(DIGIPIN_GRID, r)))
             THEN /\ pc' = "returned"
                  /\ result' = [kind |-> "IndexError"]
                  /\ UNCHANGED <<digi_pin_chars, level, min_lat, max_lat, min_lon, max_lon>>
             ELSE /\ digi_pin_chars' =
                        digi_pin_chars \o <<GridAt(DIGIPIN_GRID, r, c)>> \o Separator(level)
                  /\ SetBox(temp_min_lat(min_lat, lat_div, r),
                            temp_max_lat(min_lat, lat_div, r),
                            FxAdd(min_lon, FxMul(lon_div, c)),
                            FxAdd(FxAdd(min_lon, FxMul(lon_div, c)), lon_div))
                  /\ level' = level + 1
                  /\ UNCHANGED <<pc, result>>
    /\ GlobalsOnlyRead
    /\ UNCHANGED <<fn, lat, lon, digi_pin, pin_cleaned, char_index, origin>>

\* "".join(digi_pin_chars), line 83.
get_digipin_return ==
    /\ pc = "get_digipin" /\ level > Levels
    /\ pc' = "returned"
    /\ result' = [kind |-> "str", chars |-> digi_pin_chars]
    /\ GlobalsOnlyRead
    /\ UNCHANGED <<fn, lat, lon, digi_pin, pin_cleaned, min_lat, max_lat, min_lon,
                   max_lon, level, char_index, row, col, digi_pin_chars, origin>>

\* ----------------------------------------------- get_lat_lng_from_digi_pin

\* The ValueError of line 101.
InvalidLength(n) == [kind |-> "ValueError", message |-> "Expected 10 characters", got |-> n]

\* InvalidCharacter with the position counted from 0.
InvalidCharacterFromZero(ch, idx) ==
    [kind |-> "ValueError", message |-> "Invalid character", char |-> ch, position |-> idx]

\* The ValueError of line 116.
InvalidCharacter(ch, idx) ==
    [kind |-> "ValueError", message |-> "Invalid character", char |-> ch, position |-> idx + 1]

\* new_min_lat with a band too many.
new_min_lat_wide(hi, div, r_idx) == FxSub(hi, FxMul(div, r_idx + 2))

\* Lines 127-131.
new_min_lat(hi, div, r_idx) == FxSub(hi, FxMul(div, r_idx + 1))

new_max_lat(hi, div, r_idx) == FxSub(hi, FxMul(div, r_idx))

new_min_lon(lo, div, c_idx) == FxAdd(lo, FxMul(div, c_idx))

new_max_lon(lo, div, c_idx) == FxAdd(lo, FxMul(div, c_idx + 1))

\* Lines 99-109: the hyphens are removed, the length is checked, the loop starts.
get_lat_lng_from_digi_pin_enter(p, how) ==
    /\ fn' = "get_lat_lng_from_digi_pin" /\ digi_pin' = p
    /\ lat' = Micro(0) /\ lon' = Micro(0)
    /\ origin' = how
    /\ pin_cleaned' = StripSep(p)
    /\ FreshLocals
    /\ IF Len(StripSep(p)) # Levels
       THEN /\ pc' = "returned"
            /\ result' = InvalidLength(Len(StripSep(p)))
            /\ SetBox(Micro(0), Micro(0), Micro(0), Micro(0))
       ELSE /\ pc' = "get_lat_lng_from_digi_pin"
            /\ result' = NoResult
            /\ SetBox(BOUNDS.minLat, BOUNDS.maxLat, BOUNDS.minLon, BOUNDS.maxLon)
    /\ GlobalsOnlyRead

\* One pass of the loop of lines 111-137.
get_lat_lng_from_digi_pin_loop ==
    /\ pc = "get_lat_lng_from_digi_pin" /\ char_index < Levels
    /\ LET char == pin_cleaned[char_index + 1]
           coords == grid_char_to_coords(DIGIPIN_GRID, char)
           r_idx == coords[1]
           c_idx == coords[2]
           lat_div == FxDiv4(FxSub(max_lat, min_lat))
           lon_div == FxDiv4(FxSub(max_lon, min_lon))
       IN IF coords = <<-1, -1>>
          THEN /\ pc' = "returned"
               /\ result' = InvalidCharacter(char, char_index)
               /\ UNCHANGED <<char_index, min_lat, max_lat, min_lon, max_lon>>
          ELSE /\ SetBox(new_min_lat(max_lat, lat_div, r_idx),
                         new_max_lat(max_lat, lat_div, r_idx),
                         new_min_lon(min_lon, lon_div, c_idx),
                         new_max_lon(min_lon, lon_div, c_idx))
               /\ char_index' = char_index + 1
               /\ UNCHANGED <<pc, result>>
    /\ GlobalsOnlyRead
    /\ UNCHANGED <<fn, lat, lon, digi_pin, pin_cleaned, level, row, col,
                   digi_pin_chars, origin>>

\* Lines 139-145: the centre of the last box, each coordinate written with six
\* decimals.
get_lat_lng_from_digi_pin_return ==
    /\ pc = "get_lat_lng_from_digi_pin" /\ char_index >= Levels
    /\ pc' = "returned"
    /\ LET center_lat == FxDiv2(FxAdd(min_lat, max_lat))
           center_lon == FxDiv2(FxAdd(min_lon, max_lon))
       IN result' = [kind |-> "dict", latitude |-> Format6(center_lat),
                     longitude |-> Format6(center_lon)]
    /\ GlobalsOnlyRead
    /\ UNCHANGED <<fn, lat, lon, digi_pin, pin_cleaned, min_lat, max_lat, min_lon,
                   max_lon, level, char_index, row, col, digi_pin_chars, origin>>

\* ------------------------------------------------------------------ caller

\* The caller lets go of a result, lines 185-186.
forget ==
    /\ pc = "returned"
    /\ pc' = "idle" /\ fn' = "none"
    /\ lat' = Micro(0) /\ lon' = Micro(0) /\ digi_pin' = <<>> /\ pin_cleaned' = <<>>
    /\ SetBox(Micro(0), Micro(0), Micro(0), Micro(0))
    /\ FreshLocals
    /\ result' = NoResult /\ origin' = NoOrigin
    /\ UNCHANGED globals

\* run_encoder, lines 158-164, with coordinates of the caller's choice.
run_encoder ==
    /\ pc = "idle"
    /\ \E a \in LatInputs, b \in LonInputs : get_digipin_enter(a, b, NoOrigin)

\* run_decoder, lines 174-175, with a string of the caller's choice.
run_decoder ==
    /\ pc = "idle"
    /\ \E p \in PinInputs : get_lat_lng_from_digi_pin_enter(p, NoOrigin)

\* The caller decodes the code get_digipin has just returned.
decode_the_code ==
    /\ pc = "returned" /\ fn = "get_digipin" /\ result.kind = "str"
    /\ origin = NoOrigin
    /\ get_lat_lng_from_digi_pin_enter(result.chars,
                                       [kind |-> "encoded", lat |-> lat, lon |-> lon])

\* The caller encodes the point get_lat_lng_from_digi_pin has just returned:
\* float() of the two decimals, lines 161-162.
encode_the_point ==
    /\ pc = "returned" /\ fn = "get_lat_lng_from_digi_pin" /\ result.kind = "dict"
    /\ origin = NoOrigin
    /\ get_digipin_enter(Micro(result.latitude), Micro(result.longitude),
                         [kind |-> "decoded", code |-> pin_cleaned])

\* The caller makes the call it has just made once more.
call_again ==
    /\ pc = "returned" /\ origin = NoOrigin
    /\ IF fn = "get_digipin"
       THEN get_digipin_enter(lat, lon, [kind |-> "repeated", out |-> result])
       ELSE get_lat_lng_from_digi_pin_enter(digi_pin, [kind |-> "repeated", out |-> result])

\* Other ways to write the characters c: bare, with the hyphens of
\* get_digipin, with hyphens at both ends.
Spellings(c) ==
    {c, <<"-">> \o c \o <<"-", "-">>} \cup (IF Len(c) >= 7 THEN {Hyphenate(c)} ELSE {})

\* The caller decodes the same characters written with other hyphens.
decode_respelled ==
    /\ pc = "returned" /\ fn = "get_lat_lng_from_digi_pin" /\ origin = NoOrigin
    /\ \E q \in Spellings(pin_cleaned) \ {digi_pin} :
           get_lat_lng_from_digi_pin_enter(q, [kind |-> "respelled", out |-> result,
                                               spelling |-> digi_pin])

Next ==
    \/ run_encoder
    \/ get_digipin_loop
    \/ get_digipin_return
    \/ run_decoder
    \/ get_lat_lng_from_digi_pin_loop
    \/ get_lat_lng_from_digi_pin_return
    \/ decode_the_code
    \/ encode_the_point
    \/ call_again
    \/ decode_respelled
    \/ forget

Spec == Init /\ [][Next]_vars

\* ------------------------------------------------------------ measurement

\* The side and the half side of a level-10 cell in units.
SideUnits == Side[1] * Frac + Side[2]

HalfUnits == HalfSide[1] * Frac + HalfSide[2]

\* The number of the level-10 cell, counted from lo, whose half-open range
\* [low edge, high edge) holds x >= lo: floor((x - lo) / Side), by long division.
CellIndex(x, lo) ==
    LET d == FxSub(x, lo)
    IN (Frac \div 2) * (d[1] \div HalfUnits) + (((d[1] % HalfUnits) * Frac + d[2]) \div SideUnits)

\* How far above the low edge of that cell x is, in units.
CellOffset(x, lo) ==
    LET d == FxSub(x, lo)
    IN ((d[1] % HalfUnits) * Frac + d[2]) % SideUnits

\* The closed level-10 cell number k holds x: x may lie on its high edge.
InCell(x, lo, k) ==
    \/ CellIndex(x, lo) = k
    \/ CellIndex(x, lo) = k + 1 /\ CellOffset(x, lo) = 0

\* The largest distance along one axis that is measured exactly: 2^19 - 1 units,
\* about 64 microdegrees.
FarUnits == 2^19 - 1

\* |x - y| in units, FarUnits if it is more than that.
Gap(x, y) ==
    LET d == IF FxLess(x, y) THEN FxSub(y, x) ELSE FxSub(x, y)
    IN IF d[1] >= FarUnits \div Frac THEN FarUnits ELSE d[1] * Frac + d[2]

\* a * a for 0 <= a <= FarUnits, as <<h, l>> for h * 2^20 + l, 0 <= l < 2^20.
Square(a) ==
    LET a1 == a \div 1024
        a0 == a % 1024
        l == 2 * a1 * a0 * 1024 + a0 * a0
    IN <<a1 * a1 + (l \div 2^20), l % 2^20>>

\* a * a + b * b, in the same form.
SumSquares(a, b) ==
    LET p == Square(a)
        q == Square(b)
    IN <<p[1] + q[1] + ((p[2] + q[2]) \div 2^20), (p[2] + q[2]) % 2^20>>

\* The point (x1, y1) is at most half the diagonal of a level-10 cell away
\* from the point (x2, y2).
WithinHalfDiagonal(x1, y1, x2, y2) ==
    LET d == SumSquares(Gap(x1, x2), Gap(y1, y2))
        h == SumSquares(HalfUnits, HalfUnits)
    IN d[1] < h[1] \/ (d[1] = h[1] /\ d[2] <= h[2])

\* ------------------------------------------------------------------ claims

\* A decode of the code that get_digipin returned for (origin.lat, origin.lon)
\* has returned a point.
RoundTripDone ==
    /\ pc = "returned" /\ fn = "get_lat_lng_from_digi_pin"
    /\ origin.kind = "encoded" /\ result.kind = "dict"

\* The point decoded lies in a level-10 cell that holds the point encoded.
SameCell ==
    /\ InCell(origin.lat, BoundsInit.minLat,
              CellIndex(Micro(result.latitude), BoundsInit.minLat))
    /\ InCell(origin.lon, BoundsInit.minLon,
              CellIndex(Micro(result.longitude), BoundsInit.minLon))

\* C1 as stated: decoding the code of an in-range (lat, lon) gives a point of
\* the level-10 cell that contains (lat, lon), at most half the diagonal of
\* the cell away from (lat, lon).
C1_AsStated ==
    RoundTripDone =>
        /\ SameCell
        /\ WithinHalfDiagonal(Micro(result.latitude), Micro(result.longitude),
                              origin.lat, origin.lon)

\* C1 as amended: decoding the code of an in-range (lat, lon) gives a point of
\* the level-10 cell that contains (lat, lon); on each axis the point is at
\* most half the side of the cell plus half a microdegree (the rounding to six
\* decimals) away from (lat, lon).
C1_RoundTrip ==
    /\ (pc = "returned" /\ fn = "get_lat_lng_from_digi_pin" /\ origin.kind = "encoded")
           => result.kind = "dict"
    /\ RoundTripDone =>
        /\ SameCell
        /\ Gap(Micro(result.latitude), origin.lat) <= HalfUnits + (Frac \div 2)
        /\ Gap(Micro(result.longitude), origin.lon) <= HalfUnits + (Frac \div 2)

\* C1 witness: the round trip of a point on the corner of a cell, where the
\* rounding moves the centre away from the point on both axes.
C1_Witness ==
    /\ RoundTripDone
    /\ CellOffset(origin.lat, BoundsInit.minLat) = 0
    /\ CellOffset(origin.lon, BoundsInit.minLon) = 0
    /\ Gap(Micro(result.latitude), origin.lat) > HalfUnits
    /\ Gap(Micro(result.longitude), origin.lon) > HalfUnits

\* The 16 symbols of the grid.
Alphabet ==
    {"F", "C", "9", "8", "J", "3", "2", "7", "K", "4", "5", "6", "L", "M", "P", "T"}

\* get_digipin has returned or raised.
EncodeDone == pc = "returned" /\ fn = "get_digipin"

\* get_lat_lng_from_digi_pin has returned or raised.
DecodeDone == pc = "returned" /\ fn = "get_lat_lng_from_digi_pin"

\* 2.5 <= lat <= 38.5 and 63.5 <= lon <= 99.5.
LatInBounds == FxLeq(Micro(2500000), lat) /\ FxLeq(lat, Micro(38500000))

LonInBounds == FxLeq(Micro(63500000), lon) /\ FxLeq(lon, Micro(99500000))

\* C2: for an in-bounds (lat, lon) get_digipin returns 12 characters: a hyphen
\* at positions 4 and 8 and a symbol of the alphabet at each of the other 10.
C2_Shape ==
    (EncodeDone /\ LatInBounds /\ LonInBounds) =>
        /\ result.kind = "str"
        /\ Len(result.chars) = 12
        /\ \A i \in 1..12 :
               IF i \in {4, 8} THEN result.chars[i] = "-" ELSE result.chars[i] \in Alphabet

\* C2 witness: the code of the highest in-bounds point.
C2_Witness ==
    /\ EncodeDone /\ lat = Micro(38500000) /\ lon = Micro(99500000)
    /\ result.kind = "str" /\ Len(result.chars) = 12

\* The characters of s that are not hyphens.
NonSep(s) == SelectSeq(s, LAMBDA ch : ch # "-")

\* c is ten symbols of the alphabet.
ValidCode(c) == Len(c) = 10 /\ \A i \in 1..Len(c) : c[i] \in Alphabet

\* C3: for a valid code get_lat_lng_from_digi_pin returns a latitude strictly
\* between 2.5 and 38.5 and a longitude strictly between 63.5 and 99.5, and
\* each narrowing step leaves a box with minLat < maxLat and minLon < maxLon
\* that lies in the box before the step and in the global bounding box.
C3_Inside ==
    /\ [](DecodeDone /\ ValidCode(NonSep(digi_pin)) =>
              /\ result.kind = "dict"
              /\ 2500000 < result.latitude /\ result.latitude < 38500000
              /\ 63500000 < result.longitude /\ result.longitude < 99500000)
    /\ [][(pc = "get_lat_lng_from_digi_pin" /\ char_index' = char_index + 1) =>
              /\ FxLeq(min_lat, min_lat') /\ FxLess(min_lat', max_lat')
              /\ FxLeq(max_lat', max_lat)
              /\ FxLeq(min_lon, min_lon') /\ FxLess(min_lon', max_lon')
              /\ FxLeq(max_lon', max_lon)
              /\ FxLeq(Micro(2500000), min_lat') /\ FxLeq(max_lat', Micro(38500000))
              /\ FxLeq(Micro(63500000), min_lon') /\ FxLeq(max_lon', Micro(99500000))]_vars

\* C3 witness: a valid code decoded after ten narrowing steps.
C3_Witness ==
    /\ DecodeDone /\ ValidCode(NonSep(digi_pin))
    /\ char_index = 10 /\ result.kind = "dict"
    /\ FxLess(Micro(2500000), min_lat) /\ FxLess(max_lat, Micro(38500000))

\* C4: get_digipin raises the out-of-range error exactly when lat is outside
\* [2.5, 38.5] or lon is outside [63.5, 99.5]; the error names the coordinate
\* (latitude first) with its value and the range, and no code is returned.
C4_Range ==
    (fn = "get_digipin" /\ pc \in {"get_digipin", "returned"}) =>
        IF ~LatInBounds
        THEN /\ pc = "returned"
             /\ result = [kind |-> "ValueError", message |-> "out of range",
                          coordinate |-> "Latitude", value |-> lat,
                          from |-> Micro(2500000), to |-> Micro(38500000)]
        ELSE IF ~LonInBounds
        THEN /\ pc = "returned"
             /\ result = [kind |-> "ValueError", message |-> "out of range",
                          coordinate |-> "Longitude", value |-> lon,
                          from |-> Micro(63500000), to |-> Micro(99500000)]
        ELSE IF pc = "returned" THEN result.kind = "str" ELSE result.kind = "none"

\* C4 witness: get_digipin(-1, 77) has raised the error for the latitude.
C4_Witness ==
    /\ EncodeDone /\ lat = Micro(-1000000) /\ lon = Micro(77000000)
    /\ result.kind = "ValueError" /\ result.coordinate = "Latitude"

\* The least member of a nonempty set of integers.
Least(S) == CHOOSE i \in S : \A j \in S : i <= j

\* C5: with the hyphens removed, an input that is not 10 characters long
\* raises the length error with the length found, whatever its characters;
\* one of 10 characters with a character outside the alphabet raises the
\* character error with the first such character and its position counted
\* from 1; every other input is decoded.
C5_Validation ==
    DecodeDone =>
        LET c == NonSep(digi_pin)
            bad == {i \in 1..Len(c) : c[i] \notin Alphabet}
        IN IF Len(c) # 10
           THEN result = [kind |-> "ValueError", message |-> "Expected 10 characters",
                          got |-> Len(c)]
           ELSE IF bad # {}
           THEN result = [kind |-> "ValueError", message |-> "Invalid character",
                          char |-> c[Least(bad)], position |-> Least(bad)]
           ELSE result.kind = "dict"

\* C5 witness: "39J-49L-L8T!" has raised the error for "!" at position 10.
C5_Witness ==
    /\ DecodeDone /\ digi_pin = Hyphenate(Replace(RefCode, 10, "!"))
    /\ result.kind = "ValueError" /\ result.message = "Invalid character"
    /\ result.char = "!" /\ result.position = 10

\* C6: a valid code decodes to the same result however its hyphens are
\* written.
C6_Separators ==
    (DecodeDone /\ origin.kind = "respelled" /\ ValidCode(NonSep(digi_pin))) =>
        result.kind = "dict" /\ result = origin.out

\* C6 witness: "39J-49L-L8T4" decoded after "39J49LL8T4".
C6_Witness ==
    /\ DecodeDone /\ origin.kind = "respelled"
    /\ origin.spelling = RefCode /\ digi_pin = Hyphenate(RefCode)
    /\ result.kind = "dict"

\* C7: get_digipin(28.622788, 77.213033) returns "39J-49L-L8T4"; at every
\* level the symbol appended is that of the grid at (row, col), where the
\* latitude lies in band 3 - row counted from the low edge of the box and the
\* longitude in band col.
C7_Reference ==
    /\ []((EncodeDone /\ lat = RefLat /\ lon = RefLon) =>
              result = [kind |-> "str", chars |-> Hyphenate(RefCode)])
    /\ [][(pc = "get_digipin" /\ level' = level + 1) =>
              LET lat_div == FxDiv4(FxSub(max_lat, min_lat))
                  lon_div == FxDiv4(FxSub(max_lon, min_lon))
                  sym == SelectSeq(digi_pin_chars', LAMBDA ch : ch # "-")[level]
              IN /\ sym = GridInit[row' + 1][col' + 1]
                 /\ FxLeq(FxAdd(min_lat, FxMul(lat_div, 3 - row')), lat)
                 /\ FxLeq(lat, FxAdd(min_lat, FxMul(lat_div, 4 - row')))
                 /\ FxLeq(FxAdd(min_lon, FxMul(lon_div, col')), lon)
                 /\ FxLeq(lon, FxAdd(min_lon, FxMul(lon_div, col' + 1)))]_vars

\* C7 witness: the reference coordinate encoded.
C7_Witness ==
    /\ EncodeDone /\ lat = RefLat /\ lon = RefLon /\ origin.kind = "none"
    /\ result.kind = "str" /\ row = 2 /\ col = 1

C9_Boundary ==
    (fn = "get_digipin" /\ pc \in {"get_digipin", "returned"} /\ LatInBounds /\ LonInBounds) =>
        /\ result.kind # "IndexError"
        /\ row \in 0..3 /\ col \in 0..3
        /\ FxLeq(min_lat, lat) /\ FxLeq(lat, max_lat)
        /\ FxLeq(min_lon, lon) /\ FxLeq(lon, max_lon)

\* C9 witness: (38.5, 99.5), where the quotient is 4 on both axes at every
\* level, encoded with row 0 and column 3 in a box whose upper edges it is on.
C9_Witness ==
    /\ EncodeDone /\ lat = Micro(38500000) /\ lon = Micro(99500000)
    /\ level = 11 /\ row = 0 /\ col = 3
    /\ max_lat = lat /\ max_lon = lon

\* C10: get_digipin of the point decoded from ten symbols of the alphabet
\* returns those symbols with a hyphen after the 3rd and the 6th, and the 16
\* symbols of the grid differ from one another.
C10_DecodeEncode ==
    /\ (EncodeDone /\ origin.kind = "decoded") =>
           result.kind = "str" /\ result.chars = Hyphenate(origin.code)
    /\ Cardinality({DIGIPIN_GRID[r][c] : r \in 1..4, c \in 1..4}) = 16

\* C10 witness: the point decoded from the highest cell, encoded.
C10_Witness ==
    /\ EncodeDone /\ origin.kind = "decoded"
    /\ origin.code = CodeOf(12, 12)
    /\ result.kind = "str"

====
